---- MODULE Spec2Model ----
(***************************************************************************)
(* A model of stof's REST API client base classes:                         *)
(*   pym/stof/restapi/_abc.py    AbstractAPIClient                         *)
(*   pym/stof/restapi/client.py  APIClient (python-requests session)       *)
(*   pym/stof/restapi/exc.py     APICallException                          *)
(*                                                                         *)
(* Python strings that the code takes apart (host arguments, URLs) are     *)
(* sequences of one-character strings.  Opaque strings (header values,     *)
(* response bodies, exception names) are TLA+ strings.                     *)
(***************************************************************************)
EXTENDS Integers, Sequences, FiniteSets, TLC

VARIABLES
    DEFAULT_API_PORT,      \* class attribute of the concrete client class
    DEFAULT_API_BASEPATH,  \* class attribute of the concrete client class
    base_url,              \* AbstractAPIClient.base_url
    real_host,             \* AbstractAPIClient.real_host
    verify_cert,           \* AbstractAPIClient.verify_cert
    headers,               \* AbstractAPIClient.headers (dict)
    _session,              \* APIClient._session: NoSession or a transport id
    created,               \* number of requests.Session objects created so far
    closes,                \* per transport: how often Session.close() ran
    theaders,              \* per transport: Session.headers
    state,                 \* lifecycle state of section 4.3, advanced by each
                           \* operation that returns normally
    misuse,                \* open_connection() was called on an open client
    lastOp,                \* the operation that ran last
    before,                \* the session and state it started from
    args,                  \* its arguments
    ret,                   \* how it ended: value returned or exception raised
    calls,                 \* the calls it made, in order
    sent                   \* the requests it put on the wire, in order

vars == << DEFAULT_API_PORT, DEFAULT_API_BASEPATH, base_url, real_host,
           verify_cert, headers, _session, created, closes, theaders,
           state, misuse, lastOp, before, args, ret, calls, sent >>

clsvars    == << DEFAULT_API_PORT, DEFAULT_API_BASEPATH >>
ctorvars   == << base_url, real_host, verify_cert >>
transvars  == << _session, created, closes, theaders >>

-----------------------------------------------------------------------------
(* Bounds *)

MaxTransports == 2
MaxHostLen == 4

-----------------------------------------------------------------------------
(* Python values *)

\* None where a str is expected; no string has a character "<None>"
None == << "<None>" >>

\* None for APIClient._session; transport ids are 1..MaxTransports
NoSession == 0

\* str truthiness: None and "" are falsy
Truthy(s) == s # None /\ s # << >>

Max(S) == CHOOSE x \in S : \A y \in S : y <= x
Min(S) == CHOOSE x \in S : \A y \in S : x <= y

\* str.find(c) + 1, 0 when absent
Find(s, c) ==
    LET I == { i \in 1..Len(s) : s[i] = c }
    IN  IF I = {} THEN 0 ELSE Min(I)

\* str.rfind(c) + 1, 0 when absent
RFind(s, c) ==
    LET I == { i \in 1..Len(s) : s[i] = c }
    IN  IF I = {} THEN 0 ELSE Max(I)

Contains(s, c) == \E i \in 1..Len(s) : s[i] = c

\* str.rpartition(c)
rpartition(s, c) ==
    LET i == RFind(s, c)
    IN  IF i = 0 THEN << << >>, << >>, s >>
        ELSE << SubSeq(s, 1, i - 1), << c >>, SubSeq(s, i + 1, Len(s)) >>

\* str.partition(c)
partition(s, c) ==
    LET i == Find(s, c)
    IN  IF i = 0 THEN << s, << >>, << >> >>
        ELSE << SubSeq(s, 1, i - 1), << c >>, SubSeq(s, i + 1, Len(s)) >>

\* str.lstrip(c)
lstrip(s, c) ==
    LET I == { i \in 1..Len(s) : s[i] # c }
    IN  IF I = {} THEN << >> ELSE SubSeq(s, Min(I), Len(s))

Returned(v) == [kind |-> "return", value |-> v]
\* an exception is a record with its type and, for some, more attributes
Raised(e)   == [kind |-> "raise", exc |-> [type |-> e]]

-----------------------------------------------------------------------------
(* urllib.parse.urlparse, as far as parse_api_host_arg reads its result:   *)
(* the scheme and the netloc.                                              *)

AlphaChars  == { "a", "h", "t", "p", "s", "e", "x", "m", "l", "c", "o", "u" }
DigitChars  == { "1", "3", "4", "8" }
scheme_chars == AlphaChars \cup DigitChars \cup { "+", "-", "." }

\* the bracketed hosts that ipaddress accepts, among those the model draws
ValidBracketedHosts == { << ":", ":", "1" >> }

\* urlsplit: "<scheme>:" is split off when the text before the first ":"
\* starts with a letter and consists of scheme characters
SplitScheme(url) ==
    LET i == Find(url, ":")
    IN  IF /\ i > 1
           /\ url[1] \in AlphaChars
           /\ \A k \in 1..(i - 1) : url[k] \in scheme_chars
        THEN [scheme |-> SubSeq(url, 1, i - 1),
              rest |-> SubSeq(url, i + 1, Len(url))]
        ELSE [scheme |-> << >>, rest |-> url]

\* _splitnetloc(url, 2): the text after "//" up to the first of "/", "?", "#"
_splitnetloc(url) ==
    LET D == { k \in 3..Len(url) : url[k] \in { "/", "?", "#" } }
    IN  SubSeq(url, 3, IF D = {} THEN Len(url) ELSE Min(D) - 1)

\* urlsplit: the netloc of what follows the scheme
Netloc(url) ==
    IF Len(url) >= 2 /\ url[1] = "/" /\ url[2] = "/"
    THEN _splitnetloc(url)
    ELSE << >>

\* urlsplit: the bracket checks on the netloc, then the result
SplitResult(scheme, netloc) ==
    IF Contains(netloc, "[") # Contains(netloc, "]")
    THEN Raised("ValueError")
    ELSE IF /\ Contains(netloc, "[")
            /\ partition(partition(netloc, "[")[3], "]")[1]
                   \notin ValidBracketedHosts
    THEN Raised("ValueError")
    ELSE Returned([scheme |-> scheme, netloc |-> netloc])

SplitRest(s) == SplitResult(s.scheme, Netloc(s.rest))

urlparse(url) == SplitRest(SplitScheme(url))

-----------------------------------------------------------------------------
(* AbstractAPIClient.parse_api_host_arg                                    *)

DEFAULT_API_PROTOCOL == << "h", "t", "t", "p", "s" >>

\* the inner function of the branch taken when DEFAULT_API_PORT is set
append_default_port(arg, port) ==
    LET parts == rpartition(arg, ":")
    IN  IF arg = << >> THEN Raised("IndexError")
        ELSE IF arg[1] = "["
        THEN IF parts[1] = << >> THEN Raised("IndexError")
             ELSE IF parts[1][Len(parts[1])] = "]"
                  THEN Returned(arg \o << ":" >> \o port)
                  ELSE Returned(arg)
        ELSE IF parts[2] # << >>
        THEN Returned(arg)
        ELSE Returned(arg \o << ":" >> \o port)

\* the choice of append_default_port with its test the wrong way round: the
\* identity for a class that declares a port
cls_append_default_port_inverted(port, arg) ==
    IF Truthy(port) THEN Returned(arg) ELSE append_default_port(arg, port)

\* append_default_port as parse_api_host_arg defines it for the class
cls_append_default_port(port, arg) ==
    IF ~Truthy(port) THEN Returned(arg) ELSE append_default_port(arg, port)

\* the host of a netloc, cut at the first "@" instead of the last
netloc_host_first_at(netloc) == partition(netloc, "@")[3]

\* the host of a complete URL: its netloc without the credentials
netloc_host(netloc) == rpartition(netloc, "@")[3]

parse_api_host_arg(port, basepath, host, real_host_arg) ==
    LET parts == urlparse(host)
        isURL == /\ parts.kind = "return"
                 /\ parts.value.scheme # << >>
                 /\ parts.value.netloc # << >>
        hostRes == IF isURL
                   THEN Returned(netloc_host(parts.value.netloc))
                   ELSE cls_append_default_port(port, host)
        parsed_host == hostRes.value
        parsed_base_url ==
            IF isURL THEN host
            ELSE DEFAULT_API_PROTOCOL \o << ":", "/", "/" >> \o parsed_host
                 \o << "/" >>
                 \o lstrip(IF Truthy(basepath) THEN basepath ELSE << >>, "/")
        realRes == IF ~Truthy(real_host_arg)
                   THEN Returned(parsed_host)
                   ELSE cls_append_default_port(port, real_host_arg)
    IN  IF parts.kind = "raise" THEN parts
        ELSE IF hostRes.kind = "raise" THEN hostRes
        ELSE IF realRes.kind = "raise" THEN realRes
        ELSE Returned(<< parsed_base_url, realRes.value >>)

-----------------------------------------------------------------------------
(* The client's mutable part, passed through the methods below *)

Client == [session |-> _session, created |-> created, closes |-> closes,
           theaders |-> theaders, state |-> state, misuse |-> misuse]

Commit(c) ==
    /\ _session' = c.session
    /\ created' = c.created
    /\ closes' = c.closes
    /\ theaders' = c.theaders
    /\ state' = c.state
    /\ misuse' = c.misuse

\* the result of a method: the client afterwards, how the method ended and
\* the calls it made
Result(c, res, cs) == [c |-> c, res |-> res, calls |-> cs]

EmptyDict == [k \in {} |-> << >>]

\* dict.update
Update(f, g) ==
    [k \in (DOMAIN f) \cup (DOMAIN g) |-> IF k \in DOMAIN g THEN g[k] ELSE f[k]]

\* del d[k]
Without(f, k) == [j \in (DOMAIN f) \ {k} |-> f[j]]

-----------------------------------------------------------------------------
(* APIClient.open_connection / close_connection *)

DEFAULT_CONTENT_TYPE == << "application/json" >>
DEFAULT_ACCEPT_CONTENT_TYPE == TRUE

\* headers of a fresh requests.Session, as far as the client touches them
SessionDefaultHeaders == [k \in {"Accept"} |-> << "*/*" >>]

\* the header setup with the client's headers applied first and the
\* defaults written over them
SetupHeaders_defaults_last(rhost, hdrs) ==
    LET h1 == Update(Update(SessionDefaultHeaders, hdrs),
                     [k \in {"Host"} |-> rhost])
        h2 == IF Truthy(DEFAULT_CONTENT_TYPE)
              THEN Update(h1, [k \in {"Content-Type"} |-> DEFAULT_CONTENT_TYPE])
              ELSE h1
    IN  IF DEFAULT_ACCEPT_CONTENT_TYPE = TRUE
        THEN Update(h2, [k \in {"Accept"} |->
                 IF Truthy(DEFAULT_CONTENT_TYPE)
                 THEN DEFAULT_CONTENT_TYPE ELSE << "*/*" >>])
        ELSE h2

\* the header setup of open_connection's try block
SetupHeaders(rhost, hdrs) ==
    LET h1 == Update(SessionDefaultHeaders, [k \in {"Host"} |-> rhost])
        h2 == IF Truthy(DEFAULT_CONTENT_TYPE)
              THEN Update(h1, [k \in {"Content-Type"} |-> DEFAULT_CONTENT_TYPE])
              ELSE h1
        h3 == IF DEFAULT_ACCEPT_CONTENT_TYPE = TRUE
              THEN Update(h2, [k \in {"Accept"} |->
                       IF Truthy(DEFAULT_CONTENT_TYPE)
                       THEN DEFAULT_CONTENT_TYPE ELSE << "*/*" >>])
              ELSE h2
    IN  Update(h3, hdrs)

\* outcome "ok": the try block completes; "setup_raise": a step of it raises
OpenOutcomes == { "ok", "setup_raise" }

\* open_connection without the except clause: a transport whose setup
\* raised is not closed
open_connection_leaky(c, rhost, hdrs, outcome) ==
    LET session == c.created + 1
        c1 == [c EXCEPT !.created = session,
                        !.misuse = c.misuse \/ c.session # NoSession]
    IN  IF outcome = "setup_raise"
        THEN Result(c1, Raised("SetupError"), << "open_connection" >>)
        ELSE Result([c1 EXCEPT !.theaders[session] = SetupHeaders(rhost, hdrs),
                               !.session = session,
                               !.state = "Open"],
                    Returned("None"), << "open_connection" >>)

\* open_connection that stores the session before setting it up
open_connection_early_assign(c, rhost, hdrs, outcome) ==
    LET session == c.created + 1
        c1 == [c EXCEPT !.created = session,
                        !.session = session,
                        !.misuse = c.misuse \/ c.session # NoSession]
    IN  IF outcome = "setup_raise"
        THEN Result([c1 EXCEPT !.closes[session] = @ + 1],
                    Raised("SetupError"), << "open_connection" >>)
        ELSE Result([c1 EXCEPT !.theaders[session] = SetupHeaders(rhost, hdrs),
                               !.state = "Open"],
                    Returned("None"), << "open_connection" >>)

open_connection(c, rhost, hdrs, outcome) ==
    LET session == c.created + 1
        c1 == [c EXCEPT !.created = session,
                        !.misuse = c.misuse \/ c.session # NoSession]
    IN  IF outcome = "setup_raise"
        THEN Result([c1 EXCEPT !.closes[session] = @ + 1],
                    Raised("SetupError"), << "open_connection" >>)
        ELSE Result([c1 EXCEPT !.theaders[session] = SetupHeaders(rhost, hdrs),
                               !.session = session,
                               !.state = "Open"],
                    Returned("None"), << "open_connection" >>)

\* close_connection that closes the transport and keeps the reference
close_connection_keep(c) ==
    LET session == c.session
    IN  IF session # NoSession
        THEN Result([c EXCEPT !.closes[session] = @ + 1,
                              !.state = "Closed"],
                    Returned("None"), << "close_connection" >>)
        ELSE Result([c EXCEPT !.state = "Closed"],
                    Returned("None"), << "close_connection" >>)

\* close_connection without the None test: None has no close()
close_connection_unguarded(c) ==
    LET session == c.session
    IN  IF session # NoSession
        THEN Result([c EXCEPT !.closes[session] = @ + 1,
                              !.session = NoSession,
                              !.state = "Closed"],
                    Returned("None"), << "close_connection" >>)
        ELSE Result(c, Raised("AttributeError"), << "close_connection" >>)

close_connection(c) ==
    LET session == c.session
    IN  IF session # NoSession
        THEN Result([c EXCEPT !.closes[session] = @ + 1,
                              !.session = NoSession,
                              !.state = "Closed"],
                    Returned("None"), << "close_connection" >>)
        ELSE Result([c EXCEPT !.state = "Closed"],
                    Returned("None"), << "close_connection" >>)

-----------------------------------------------------------------------------
(* The abstract login / logout: a concrete client's handshake either       *)
(* returns or raises.                                                      *)

AuthOutcomes == { "ok", "raise" }

login(c, outcome) ==
    IF outcome = "raise"
    THEN Result(c, Raised("LoginError"), << "login" >>)
    ELSE Result([c EXCEPT !.state = IF @ = "Closed" THEN @ ELSE "Authenticated"],
                Returned("None"), << "login" >>)

logout(c, outcome) ==
    IF outcome = "raise"
    THEN Result(c, Raised("LogoutError"), << "logout" >>)
    ELSE Result([c EXCEPT !.state = IF @ = "Authenticated" THEN "Open" ELSE @],
                Returned("None"), << "logout" >>)

-----------------------------------------------------------------------------
(* AbstractAPIClient.__enter__ / __exit__ *)

\* __enter__ without the except clause around login()
enter_no_cleanup(c, rhost, hdrs, openOutcome, loginOutcome) ==
    LET o == open_connection(c, rhost, hdrs, openOutcome)
        l == login(o.c, loginOutcome)
    IN  IF o.res.kind = "raise" THEN o
        ELSE IF l.res.kind = "raise"
        THEN Result(l.c, l.res, o.calls \o l.calls)
        ELSE Result(l.c, Returned("self"), o.calls \o l.calls)

__enter__(c, rhost, hdrs, openOutcome, loginOutcome) ==
    LET o == open_connection(c, rhost, hdrs, openOutcome)
        l == login(o.c, loginOutcome)
        x == close_connection(l.c)
    IN  IF o.res.kind = "raise" THEN o
        ELSE IF l.res.kind = "raise"
        THEN Result(x.c, l.res, o.calls \o l.calls \o x.calls)
        ELSE Result(l.c, Returned("self"), o.calls \o l.calls)

\* __exit__ without the finally clause: close_connection() after logout()
exit_no_finally(c, logoutOutcome) ==
    LET l == logout(c, logoutOutcome)
        x == close_connection(l.c)
    IN  IF l.res.kind = "raise"
        THEN Result(l.c, l.res, l.calls)
        ELSE Result(x.c, Returned("None"), l.calls \o x.calls)

\* __exit__ with "except: pass" around logout()
exit_suppress(c, logoutOutcome) ==
    LET l == logout(c, logoutOutcome)
        x == close_connection(l.c)
    IN  Result(x.c, Returned("None"), l.calls \o x.calls)

\* __exit__ that closes the connection first and logs out afterwards
exit_close_first(c, logoutOutcome) ==
    LET x == close_connection(c)
        l == logout(x.c, logoutOutcome)
    IN  IF l.res.kind = "raise"
        THEN Result(l.c, l.res, x.calls \o l.calls)
        ELSE Result(l.c, Returned("None"), x.calls \o l.calls)

\* __exit__ that wraps a logout failure in an exception of its own
exit_wrap(c, logoutOutcome) ==
    LET l == logout(c, logoutOutcome)
        x == close_connection(l.c)
    IN  IF l.res.kind = "raise"
        THEN Result(x.c, Raised("APIException"), l.calls \o x.calls)
        ELSE Result(x.c, Returned("None"), l.calls \o x.calls)

__exit__(c, logoutOutcome) ==
    LET l == logout(c, logoutOutcome)
        x == close_connection(l.c)
    IN  IF l.res.kind = "raise"
        THEN Result(x.c, l.res, l.calls \o x.calls)
        ELSE Result(x.c, Returned("None"), l.calls \o x.calls)

-----------------------------------------------------------------------------
(* AbstractAPIClient.add_header / unset_header *)

\* AbstractAPIClient.join_url
join_url(base, endpoint) ==
    IF Truthy(endpoint)
    THEN base \o << "/" >> \o lstrip(endpoint, "/")
    ELSE base

add_header(hdrs, name, value) == Update(hdrs, [k \in {name} |-> value])

unset_header(hdrs, name, ignore_missing) ==
    IF name \in DOMAIN hdrs
    THEN [hdrs |-> Without(hdrs, name), res |-> Returned("None")]
    ELSE IF ~ignore_missing
    THEN [hdrs |-> hdrs, res |-> Raised("KeyError")]
    ELSE [hdrs |-> hdrs, res |-> Returned("None")]

-----------------------------------------------------------------------------
(* APIClient._request: the session property, then Session.request *)

TransportOutcomes == { "response", "raise" }

\* _request through requests.request instead of the session: the request
\* carries the library's headers only
_request_without_session(c, outcome, response) ==
    IF c.session = NoSession
    THEN [res |-> Raised("AssertionError"), calls |-> << "session" >>,
          sent |-> << >>]
    ELSE [res |-> IF outcome = "raise" THEN Raised("ConnectionError")
                  ELSE Returned(response),
          calls |-> << "session", "request" >>,
          sent |-> << [transport |-> c.session,
                       headers |-> SessionDefaultHeaders] >>]

\* _request that reads self._session instead of the session property
_request_no_property(c, outcome, response) ==
    IF c.session = NoSession
    THEN [res |-> Raised("AttributeError"), calls |-> << "request" >>,
          sent |-> << >>]
    ELSE [res |-> IF outcome = "raise" THEN Raised("ConnectionError")
                  ELSE Returned(response),
          calls |-> << "session", "request" >>,
          sent |-> << [transport |-> c.session,
                       headers |-> c.theaders[c.session]] >>]

\* _request that tries the transport a second time when it raised
_request_retry(c, outcome, response) ==
    IF c.session = NoSession
    THEN [res |-> Raised("AssertionError"), calls |-> << "session" >>,
          sent |-> << >>]
    ELSE IF outcome = "raise"
    THEN [res |-> Raised("ConnectionError"),
          calls |-> << "session", "request", "session", "request" >>,
          sent |-> << [transport |-> c.session,
                       headers |-> c.theaders[c.session]],
                      [transport |-> c.session,
                       headers |-> c.theaders[c.session]] >>]
    ELSE [res |-> Returned(response),
          calls |-> << "session", "request" >>,
          sent |-> << [transport |-> c.session,
                       headers |-> c.theaders[c.session]] >>]

_request(c, outcome, response) ==
    IF c.session = NoSession
    THEN [res |-> Raised("AssertionError"), calls |-> << "session" >>,
          sent |-> << >>]
    ELSE [res |-> IF outcome = "raise" THEN Raised("ConnectionError")
                  ELSE Returned(response),
          calls |-> << "session", "request" >>,
          sent |-> << [transport |-> c.session,
                       headers |-> c.theaders[c.session]] >>]

-----------------------------------------------------------------------------
(* AbstractAPIClient.process_response, APIClient.convert_response_text,    *)
(* APICallException                                                        *)

HTTP_STATUS_CODES_SUCCESS == { 200, 201, 202, 203, 204, 205, 206, 207 }

\* a Python value: its type and its repr
PyValue(t, r) == [type |-> t, repr |-> r]
PyNone == PyValue("NoneType", "None")

\* json.loads on the response texts the model draws
convert_response_text(text) ==
    CASE text = "null"         -> Returned(PyNone)
      [] text = "{}"           -> Returned(PyValue("dict", "{}"))
      [] text = "\"not json\"" -> Returned(PyValue("str", "'not json'"))
      [] text = "{\"error\":\"not found\"}"
                               -> Returned(PyValue("dict", "{'error': 'not found'}"))
      [] OTHER                 -> Raised("JSONDecodeError")

render_response_error(text) == text

APICallException(status_code, response_text, message) ==
    [type |-> "APICallException",
     status_code |-> status_code,
     response_text |-> response_text,
     message |-> IF message # "" THEN message ELSE response_text]

\* process_response that tests errors_ok before the status code
process_response_tolerant_first(response, errors_ok) ==
    IF errors_ok
    THEN Returned(<< FALSE, PyNone >>)
    ELSE IF response.status_code \in HTTP_STATUS_CODES_SUCCESS
    THEN LET body == convert_response_text(response.text)
         IN  IF body.kind = "raise" THEN body
             ELSE Returned(<< TRUE, body.value >>)
    ELSE [kind |-> "raise",
          exc |-> APICallException(response.status_code, response.text,
                                   render_response_error(response.text))]

\* process_response that treats a body it cannot convert as a failed call
process_response_conflating(response, errors_ok) ==
    LET body == convert_response_text(response.text)
        failed == \/ response.status_code \notin HTTP_STATUS_CODES_SUCCESS
                  \/ body.kind = "raise"
    IN  IF ~failed
        THEN Returned(<< TRUE, body.value >>)
        ELSE IF errors_ok
        THEN Returned(<< FALSE, PyNone >>)
        ELSE [kind |-> "raise",
              exc |-> APICallException(response.status_code, response.text,
                                       render_response_error(response.text))]

process_response(response, errors_ok) ==
    IF response.status_code \in HTTP_STATUS_CODES_SUCCESS
    THEN LET body == convert_response_text(response.text)
         IN  IF body.kind = "raise" THEN body
             ELSE Returned(<< TRUE, body.value >>)
    ELSE IF errors_ok
    THEN Returned(<< FALSE, PyNone >>)
    ELSE [kind |-> "raise",
          exc |-> APICallException(response.status_code, response.text,
                                   render_response_error(response.text))]

-----------------------------------------------------------------------------
(* Inputs *)

Transports == 1..MaxTransports

HeaderNames  == { "Host", "X-Auth" }
HeaderValues == { << "u1" >> }

StatusCodes   == (198..209) \cup { 404, 500 }
ResponseTexts == { "null", "{}", "\"not json\"", "not json",
                   "{\"error\":\"not found\"}", "" }
Responses == [status_code : StatusCodes, text : ResponseTexts]

\* the responses a transport hands back in the lifecycle specification
WireResponses == { [status_code |-> 200, text |-> "{}"],
                   [status_code |-> 200, text |-> "not json"],
                   [status_code |-> 404, text |-> "{\"error\":\"not found\"}"] }

\* the endpoint arguments of join_url
Endpoints == { None, << >>, << "x" >>, << "/", "/", "x" >> }

Port443  == << "4", "4", "3" >>
Port8443 == << "8", "4", "4", "3" >>
Ports == { None, Port443, Port8443 }

BasePaths == { None, << "/", "x" >> }

HostChars == { "a", "1", ":", "[", "]" }
Strings(n) == UNION { [1..k -> HostChars] : k \in 0..n }

example_com == << "e", "x", "a", "m", "p", "l", "e", ".", "c", "o", "m" >>
ip6         == << "[", ":", ":", "1", "]" >>

ScenarioHosts ==
    { example_com,
      example_com \o << ":" >> \o Port443,
      ip6,
      ip6 \o << ":" >> \o Port8443,
      << "/", "/", "a" >>,
      << "a", ":", "/", "/" >>,
      << "a", ":", "/", "/", "a" >>,
      << "a", ":", "/", "/", "a", "/", "x" >>,
      << "a", ":", "/", "/", "u", ":", "p", "@", "a", ":", "1", "/" >>,
      << "a", ":", "/", "/", "u", "@", "a", "@", "a" >>,
      << "1", "a", ":", "/", "/", "a" >>,
      << "a", ":", "/", "/", "[", "a" >>,
      << "a", ":", "/", "/" >> \o ip6 \o << ":", "1" >> }

Hosts == Strings(MaxHostLen) \cup ScenarioHosts

RealHostArgs == { None, << >>, << "a" >>, << "a", ":", "1" >>, ip6,
                  ip6 \o << ":" >> \o Port8443 }

\* the constructor arguments of the clients of the lifecycle specification
ClientArgs ==
    { [port |-> Port443, basepath |-> None, host |-> example_com,
       real_host |-> None, verify_cert |-> TRUE],
      [port |-> None, basepath |-> << "/", "x" >>,
       host |-> << "a", ":", "/", "/", "u", "@", "a" >>,
       real_host |-> << "a", ":", "1" >>, verify_cert |-> FALSE] }

-----------------------------------------------------------------------------
(* The client's life after construction *)

NoArgs == [none |-> TRUE]

\* what a caller can see of the client's lifecycle
Seen == [session |-> _session, state |-> state]

Init ==
    \E a \in ClientArgs :
        LET r == parse_api_host_arg(a.port, a.basepath, a.host, a.real_host)
        IN  /\ r.kind = "return"
            /\ DEFAULT_API_PORT = a.port
            /\ DEFAULT_API_BASEPATH = a.basepath
            /\ base_url = r.value[1]
            /\ real_host = r.value[2]
            /\ verify_cert = a.verify_cert
            /\ headers = EmptyDict
            /\ _session = NoSession
            /\ created = 0
            /\ closes = [t \in Transports |-> 0]
            /\ theaders = [t \in Transports |-> EmptyDict]
            /\ state = "Closed"
            /\ misuse = FALSE
            /\ lastOp = "__init__"
            /\ before = [session |-> NoSession, state |-> "Closed"]
            /\ args = NoArgs
            /\ ret = Returned("None")
            /\ calls = << >>
            /\ sent = << >>

\* a method of the client ran: what the caller sees of it
Ran(op, a, r) ==
    /\ lastOp' = op
    /\ before' = Seen
    /\ args' = a
    /\ ret' = r.res
    /\ calls' = r.calls
    /\ sent' = << >>
    /\ Commit(r.c)
    /\ UNCHANGED << clsvars, ctorvars, headers >>

OpenConnection ==
    /\ created < MaxTransports
    /\ \E outcome \in OpenOutcomes :
        Ran("open_connection", [outcome |-> outcome],
            open_connection(Client, real_host, headers, outcome))

CloseConnection ==
    Ran("close_connection", NoArgs, close_connection(Client))

Login ==
    \E outcome \in AuthOutcomes :
        Ran("login", [outcome |-> outcome], login(Client, outcome))

Logout ==
    \E outcome \in AuthOutcomes :
        Ran("logout", [outcome |-> outcome], logout(Client, outcome))

Enter ==
    /\ created < MaxTransports
    /\ \E openOutcome \in OpenOutcomes, loginOutcome \in AuthOutcomes :
        Ran("__enter__", [open |-> openOutcome, login |-> loginOutcome],
            __enter__(Client, real_host, headers, openOutcome, loginOutcome))

Exit ==
    \E logoutOutcome \in AuthOutcomes :
        Ran("__exit__", [logout |-> logoutOutcome],
            __exit__(Client, logoutOutcome))

AddHeader ==
    \E name \in HeaderNames, value \in HeaderValues :
        /\ headers' = add_header(headers, name, value)
        /\ lastOp' = "add_header"
        /\ before' = Seen
        /\ args' = [name |-> name, value |-> value]
        /\ ret' = Returned("None")
        /\ calls' = << >>
        /\ sent' = << >>
        /\ UNCHANGED << clsvars, ctorvars, transvars, state, misuse >>

UnsetHeader ==
    \E name \in HeaderNames, ignore_missing \in BOOLEAN :
        LET r == unset_header(headers, name, ignore_missing)
        IN  /\ headers' = r.hdrs
            /\ lastOp' = "unset_header"
            /\ before' = Seen
            /\ args' = [name |-> name, ignore_missing |-> ignore_missing]
            /\ ret' = r.res
            /\ calls' = << >>
            /\ sent' = << >>
            /\ UNCHANGED << clsvars, ctorvars, transvars, state, misuse >>

Request ==
    \E outcome \in TransportOutcomes, response \in WireResponses :
        LET r == _request(Client, outcome, response)
        IN  /\ lastOp' = "_request"
            /\ before' = Seen
            /\ args' = [outcome |-> outcome]
            /\ ret' = r.res
            /\ calls' = r.calls
            /\ sent' = r.sent
            /\ UNCHANGED << clsvars, ctorvars, headers, transvars, state,
                            misuse >>

\* join_url that keeps the joined URL as the new base URL
JoinUrl_rebase ==
    \E endpoint \in Endpoints :
        /\ lastOp' = "join_url"
        /\ before' = Seen
        /\ args' = [endpoint |-> endpoint]
        /\ ret' = Returned(join_url(base_url, endpoint))
        /\ base_url' = join_url(base_url, endpoint)
        /\ calls' = << >>
        /\ sent' = << >>
        /\ UNCHANGED << clsvars, real_host, verify_cert, headers, transvars,
                        state, misuse >>

JoinUrl ==
    \E endpoint \in Endpoints :
        /\ lastOp' = "join_url"
        /\ before' = Seen
        /\ args' = [endpoint |-> endpoint]
        /\ ret' = Returned(join_url(base_url, endpoint))
        /\ calls' = << >>
        /\ sent' = << >>
        /\ UNCHANGED << clsvars, ctorvars, headers, transvars, state, misuse >>

\* process_response that closes the connection before it raises
ProcessResponseOf_teardown(R) ==
    \E response \in R, errors_ok \in BOOLEAN :
        LET res == process_response(response, errors_ok)
        IN  /\ lastOp' = "process_response"
            /\ before' = Seen
            /\ args' = [response |-> response, errors_ok |-> errors_ok]
            /\ ret' = res
            /\ calls' = << >>
            /\ sent' = << >>
            /\ Commit(IF res.kind = "raise"
                      THEN close_connection(Client).c ELSE Client)
            /\ UNCHANGED << clsvars, ctorvars, headers >>

ProcessResponseOf(R) ==
    \E response \in R, errors_ok \in BOOLEAN :
        /\ lastOp' = "process_response"
        /\ before' = Seen
        /\ args' = [response |-> response, errors_ok |-> errors_ok]
        /\ ret' = process_response(response, errors_ok)
        /\ calls' = << >>
        /\ sent' = << >>
        /\ UNCHANGED << clsvars, ctorvars, headers, transvars, state, misuse >>

ProcessResponse == ProcessResponseOf(WireResponses)

Next ==
    \/ OpenConnection
    \/ CloseConnection
    \/ Login
    \/ Logout
    \/ Enter
    \/ Exit
    \/ AddHeader
    \/ UnsetHeader
    \/ Request
    \/ JoinUrl
    \/ ProcessResponse

Spec == Init /\ [][Next]_vars

-----------------------------------------------------------------------------
(* Resolving the host argument: a class and constructor arguments are      *)
(* drawn, then parse_api_host_arg or the constructor runs on them.         *)

InitHost ==
    /\ DEFAULT_API_PORT \in Ports
    /\ DEFAULT_API_BASEPATH \in BasePaths
    /\ args \in [host : Hosts, real_host : RealHostArgs]
    /\ lastOp = "class"
    /\ before = [session |-> NoSession, state |-> "Closed"]
    /\ ret = Returned("None")
    /\ base_url = None
    /\ real_host = None
    /\ verify_cert = TRUE
    /\ headers = EmptyDict
    /\ _session = NoSession
    /\ created = 0
    /\ closes = [t \in Transports |-> 0]
    /\ theaders = [t \in Transports |-> EmptyDict]
    /\ state = "Closed"
    /\ misuse = FALSE
    /\ calls = << >>
    /\ sent = << >>

ParseApiHostArg ==
    /\ lastOp = "class"
    /\ lastOp' = "parse_api_host_arg"
    /\ ret' = parse_api_host_arg(DEFAULT_API_PORT, DEFAULT_API_BASEPATH,
                                 args.host, args.real_host)
    /\ UNCHANGED << clsvars, ctorvars, headers, transvars, state, misuse,
                    before, args, calls, sent >>

\* APIClient.__init__
ClientInit ==
    /\ lastOp = "class"
    /\ lastOp' = "__init__"
    /\ LET r == parse_api_host_arg(DEFAULT_API_PORT, DEFAULT_API_BASEPATH,
                                   args.host, args.real_host)
       IN  IF r.kind = "raise"
           THEN ret' = r /\ UNCHANGED << base_url, real_host >>
           ELSE /\ ret' = Returned("None")
                /\ base_url' = r.value[1]
                /\ real_host' = r.value[2]
    /\ calls' = << "parse_api_host_arg" >>
    /\ UNCHANGED << clsvars, verify_cert, headers, transvars, state, misuse,
                    before, args, sent >>

NextHost ==
    \/ ParseApiHostArg
    \/ ClientInit

SpecHost == InitHost /\ [][NextHost]_vars

-----------------------------------------------------------------------------
(* Classifying responses: process_response on every drawn response *)

ClassifyResponse == ProcessResponseOf(Responses)

NextResponse == ClassifyResponse

SpecResponse == Init /\ [][NextResponse]_vars

-----------------------------------------------------------------------------
(* scripts/base.py: ExitCodes and MainScript.run *)

\* a ^ b on natural numbers
RECURSIVE Xor(_, _)
Xor(a, b) ==
    IF a = 0 THEN b
    ELSE IF b = 0 THEN a
    ELSE (((a % 2) + (b % 2)) % 2) + 2 * Xor(a \div 2, b \div 2)

\* os.EX_OK where the platform has it, and the fallback of getattr
EX_OK == 0
EX_ERR == Xor(EX_OK, 1)
EX_BROKEN_PIPE == 11
EX_KEYBOARD_INTERRUPT == Xor(EX_OK, 130)

\* what __call__ may return: None, a bool or an int
PyBool(b) == [type |-> "bool", bool |-> b]
PyInt(n)  == [type |-> "int", int |-> n]

\* the steps of the try block of run(), in order; __exit__ calls cleanup()
Steps(setup_logger) ==
    << "get_argument_parser", "parse_args", "load_config" >>
    \o (IF setup_logger THEN << "setup_logging" >> ELSE << >>)
    \o << "prepare", "__call__", "cleanup" >>

\* the exception a step raises, "none" when it returns: parse_args() leaves
\* with SystemExit on a usage error, __call__ ends as the runnable unit
\* does, and a KeyboardInterrupt arrives in the step the user interrupts
StepRaises(step, a) ==
    IF a.interrupt = step THEN "KeyboardInterrupt"
    ELSE IF step = "parse_args" /\ a.parse = "usage" THEN "SystemExit"
    ELSE IF step = "__call__" /\ a.unit.kind = "raise" THEN a.unit.exc.type
    ELSE "none"

\* the first step before __call__ that raises, 0 when there is none
FirstFailure(steps, a) ==
    LET I == { i \in 1..(Len(steps) - 2) : StepRaises(steps[i], a) # "none" }
    IN  IF I = {} THEN 0 ELSE Min(I)

\* the try block: the steps that ran and the exception that leaves it.  Once
\* prepare() has returned, cleanup() runs however __call__ ends, __exit__
\* returns None and so suppresses nothing, and an exception of cleanup()
\* replaces the one of __call__.
TryBlock(steps, a, failed) ==
    IF failed # 0
    THEN [exc |-> StepRaises(steps[failed], a),
          calls |-> SubSeq(steps, 1, failed)]
    ELSE [exc |-> IF StepRaises("cleanup", a) # "none"
                  THEN StepRaises("cleanup", a)
                  ELSE StepRaises("__call__", a),
          calls |-> steps]

\* run() that takes the result for an exit code by equality instead of
\* identity: 1 == True and 0 == False
ExitCodeOf_by_equality(exit_code) ==
    IF exit_code = PyNone THEN EX_OK
    ELSE IF exit_code.type = "bool" THEN (IF exit_code.bool THEN EX_OK ELSE EX_ERR)
    ELSE IF exit_code.int = 1 THEN EX_OK
    ELSE IF exit_code.int = 0 THEN EX_ERR
    ELSE exit_code.int

\* the else clause of run()
ExitCodeOf(exit_code) ==
    IF exit_code = PyNone \/ exit_code = PyBool(TRUE) THEN EX_OK
    ELSE IF exit_code = PyBool(FALSE) THEN EX_ERR
    ELSE exit_code.int

\* the except clauses, the else clause and the finally clause of run()
run_handlers(body, a) ==
    CASE body.exc = "KeyboardInterrupt" ->
            [res |-> Returned(EX_KEYBOARD_INTERRUPT),
             calls |-> body.calls \o << "signal" >>]
      [] body.exc = "BrokenPipeError" ->
            [res |-> Returned(EX_BROKEN_PIPE),
             calls |-> body.calls
                       \o << "stdout.close", "stderr.close", "signal" >>]
      [] body.exc = "none" ->
            [res |-> Returned(ExitCodeOf(a.unit.value)),
             calls |-> body.calls \o << "signal" >>]
      [] OTHER ->
            [res |-> Raised(body.exc),
             calls |-> body.calls \o << "signal" >>]

\* MainScript.run
run(a) ==
    run_handlers(TryBlock(Steps(a.setup_logger), a,
                          FirstFailure(Steps(a.setup_logger), a)), a)

\* what the runnable unit returns or raises
UnitInts == { 0, 1, 2, 11, 64, 130, 256 }
UnitValues == { PyNone, PyBool(TRUE), PyBool(FALSE) }
              \cup { PyInt(n) : n \in UnitInts }
UnitOutcomes ==
    { Returned(v) : v \in UnitValues }
    \cup { Raised(e) : e \in { "KeyboardInterrupt", "BrokenPipeError",
                               "ValueError" } }

\* the step in which the user interrupts the script
Interrupts == { "none", "parse_args", "load_config", "setup_logging",
                "prepare", "cleanup" }

RunArgs == [setup_logger : BOOLEAN, parse : { "ok", "usage" },
            interrupt : Interrupts, unit : UnitOutcomes]

InitRun ==
    /\ args \in RunArgs
    /\ lastOp = "script"
    /\ DEFAULT_API_PORT = None
    /\ DEFAULT_API_BASEPATH = None
    /\ before = [session |-> NoSession, state |-> "Closed"]
    /\ ret = Returned("None")
    /\ base_url = None
    /\ real_host = None
    /\ verify_cert = TRUE
    /\ headers = EmptyDict
    /\ _session = NoSession
    /\ created = 0
    /\ closes = [t \in Transports |-> 0]
    /\ theaders = [t \in Transports |-> EmptyDict]
    /\ state = "Closed"
    /\ misuse = FALSE
    /\ calls = << >>
    /\ sent = << >>

Run ==
    /\ lastOp = "script"
    /\ lastOp' = "run"
    /\ ret' = run(args).res
    /\ calls' = run(args).calls
    /\ UNCHANGED << clsvars, ctorvars, headers, transvars, state, misuse,
                    before, args, sent >>

NextRun == Run

SpecRun == InitRun /\ [][NextRun]_vars

-----------------------------------------------------------------------------
(* Properties of the scoped session *)

\* the transports created and not closed
Live == { t \in 1..created : closes[t] = 0 }

\* the last operation was a scoped acquire whose login() raised after
\* open_connection() had returned
LoginFailedInEnter ==
    /\ lastOp = "__enter__"
    /\ args.open = "ok"
    /\ args.login = "raise"

\* C1: when open_connection() succeeds and login() raises in __enter__, the
\* login error reaches the caller only after close_connection() has run: the
\* transport just opened is closed, _session is None and the state is Closed.
C1_EnterLoginFailureCloses ==
    LoginFailedInEnter =>
        /\ ret.kind = "raise"
        /\ ret.exc.type = "LoginError"
        /\ calls = << "open_connection", "login", "close_connection" >>
        /\ closes[created] = 1
        /\ _session = NoSession
        /\ state = "Closed"

C1_Witness ==
    /\ LoginFailedInEnter
    /\ ret.kind = "raise"
    /\ before.session = NoSession
    /\ created >= 1

\* C2: whether logout() returns or raises, __exit__ runs close_connection()
\* after it: the transport held on entry is closed, _session is None and the
\* state is Closed.
C2_ExitAlwaysCloses ==
    lastOp = "__exit__" =>
        /\ calls = << "logout", "close_connection" >>
        /\ before.session # NoSession => closes[before.session] = 1
        /\ _session = NoSession
        /\ state = "Closed"

C2_Witness ==
    /\ lastOp = "__exit__"
    /\ args.logout = "raise"
    /\ before.session # NoSession
    /\ before.state = "Authenticated"
    /\ _session = NoSession

\* the last operation was a scoped release whose logout() raised
LogoutFailedInExit ==
    /\ lastOp = "__exit__"
    /\ args.logout = "raise"

\* C3, as claimed: when logout() raises during release, __exit__ returns to
\* the caller without propagating the logout failure.
C3_ExitNeverRaises ==
    LogoutFailedInExit => ret.kind = "return"

\* C3, amended: when logout() raises during release, the transport is torn
\* down first and the logout failure then propagates to the caller.
C3_ExitClosesThenRaises ==
    LogoutFailedInExit =>
        /\ before.session # NoSession => closes[before.session] = 1
        /\ _session = NoSession
        /\ ret.kind = "raise"
        /\ ret.exc.type = "LogoutError"

C3_Witness ==
    /\ LogoutFailedInExit
    /\ before.session # NoSession
    /\ ret.kind = "raise"
    /\ closes[before.session] = 1

\* C4: the session reference is non-null exactly in the Open and
\* Authenticated states and null in Closed, after construction and after
\* every operation, failed or not.
C4_SessionIffOpen ==
    /\ state \in { "Closed", "Open", "Authenticated" }
    /\ _session # NoSession <=> state \in { "Open", "Authenticated" }
    /\ lastOp = "__init__" => _session = NoSession
    /\ (lastOp \in { "open_connection", "__enter__" } /\ ret.kind = "raise"
        /\ before.session = NoSession) => _session = NoSession

C4_Witness ==
    /\ lastOp = "close_connection"
    /\ before.session # NoSession
    /\ before.state = "Authenticated"
    /\ _session = NoSession
    /\ state = "Closed"

\* C5: as long as open_connection() was only called on a Closed client, the
\* transports created and not yet closed are exactly the client's session
\* (none when it is Closed), and no transport is closed twice; so once a
\* scope has been left every transport created has been closed exactly once.
C5_NoTransportLeak ==
    ~misuse =>
        /\ Live = IF _session # NoSession THEN { _session } ELSE {}
        /\ \A t \in 1..created : closes[t] <= 1
        /\ lastOp = "__exit__" => \A t \in 1..created : closes[t] = 1

C5_Witness ==
    /\ ~misuse
    /\ lastOp = "__exit__"
    /\ before.session # NoSession
    /\ created >= 2
    /\ \A t \in 1..created : closes[t] = 1

\* C6: close_connection() on a Closed client returns normally and changes
\* neither the transports nor the state; after any close_connection() the
\* client is Closed, so a second call in a row is such a no-op and no
\* transport is ever closed twice.
C6_CloseIsIdempotent ==
    [][ /\ (lastOp' = "close_connection" /\ _session = NoSession) =>
            /\ ret'.kind = "return"
            /\ closes' = closes
            /\ _session' = NoSession
            /\ state' = state
        /\ lastOp' = "close_connection" =>
            /\ _session' = NoSession
            /\ \A t \in Transports : closes'[t] <= 1 ]_vars

C6_Witness ==
    /\ lastOp = "close_connection"
    /\ before.session = NoSession
    /\ ret.kind = "return"
    /\ \E t \in 1..created : closes[t] = 1

-----------------------------------------------------------------------------
(* Properties of the response classification *)

SuccessCode(code) == 200 <= code /\ code <= 207

\* the texts json.loads accepts, among those the model draws
JsonTexts == { "null", "{}", "\"not json\"", "{\"error\":\"not found\"}" }

\* C7: a status code in 200..207 yields (True, decoded body) in strict and in
\* tolerant mode; any other code yields (False, None) in tolerant mode and
\* otherwise raises an APICallException with the response's status code and
\* raw body; an APICallException is only ever built for a non-success code.
C7_ResponseClassification ==
    lastOp = "process_response" =>
        LET response == args.response
            code == response.status_code
        IN  /\ (SuccessCode(code) /\ response.text \in JsonTexts) =>
                /\ ret.kind = "return"
                /\ ret.value = << TRUE, convert_response_text(response.text).value >>
            /\ (~SuccessCode(code) /\ args.errors_ok) =>
                /\ ret.kind = "return"
                /\ ret.value = << FALSE, PyNone >>
            /\ (~SuccessCode(code) /\ ~args.errors_ok) =>
                /\ ret.kind = "raise"
                /\ ret.exc.type = "APICallException"
                /\ ret.exc.status_code = code
                /\ ret.exc.response_text = response.text
            /\ (ret.kind = "raise" /\ ret.exc.type = "APICallException") =>
                ~SuccessCode(code)

C7_Witness ==
    /\ lastOp = "process_response"
    /\ args.response.status_code = 404
    /\ args.response.text = "{\"error\":\"not found\"}"
    /\ ~args.errors_ok
    /\ ret.kind = "raise"
    /\ ret.exc.status_code = 404
    /\ ret.exc.response_text = "{\"error\":\"not found\"}"

\* C8: for a success status code with a body that cannot be decoded,
\* process_response raises the decode error, in tolerant and in strict mode:
\* neither an APICallException nor a (False, None) result.
C8_DecodeErrorPropagates ==
    ( /\ lastOp = "process_response"
      /\ SuccessCode(args.response.status_code)
      /\ args.response.text \notin JsonTexts ) =>
        /\ ret.kind = "raise"
        /\ ret.exc.type = "JSONDecodeError"

C8_Witness ==
    /\ lastOp = "process_response"
    /\ args.response.status_code = 200
    /\ args.response.text = "not json"
    /\ args.errors_ok
    /\ ret.kind = "raise"

-----------------------------------------------------------------------------
(* Properties of the host resolver *)

\* a bare host[:port] argument: a name or a bracketed literal, then
\* optionally ":" and the digits of a port
IsName(s) ==
    /\ s # << >>
    /\ \A i \in 1..Len(s) : s[i] \notin { ":", "[", "]", "/", "@", "?", "#" }

IsPort(s) ==
    /\ s # << >>
    /\ \A i \in 1..Len(s) : s[i] \in DigitChars

IsLiteral(s) ==
    /\ s # << >>
    /\ \A i \in 1..Len(s) : s[i] \notin { "[", "]", "/", "@", "?", "#" }

\* the host and the port of a bare host argument, port << >> when it has none
SplitBareHost(h) ==
    IF h # << >> /\ h[1] = "["
    THEN LET j == Find(h, "]")
         IN  IF j = 0 THEN [ok |-> FALSE]
             ELSE IF j = Len(h)
             THEN [ok |-> IsLiteral(SubSeq(h, 2, j - 1)), port |-> << >>]
             ELSE [ok |-> /\ IsLiteral(SubSeq(h, 2, j - 1))
                          /\ h[j + 1] = ":"
                          /\ IsPort(SubSeq(h, j + 2, Len(h))),
                   port |-> SubSeq(h, j + 2, Len(h))]
    ELSE LET j == Find(h, ":")
         IN  IF j = 0 THEN [ok |-> IsName(h), port |-> << >>]
             ELSE [ok |-> /\ IsName(SubSeq(h, 1, j - 1))
                          /\ IsPort(SubSeq(h, j + 1, Len(h))),
                   port |-> SubSeq(h, j + 1, Len(h))]

\* parse_api_host_arg ran for a class with a default port, on a bare host
\* and without a real_host argument
ResolvedBareHost ==
    /\ lastOp = "parse_api_host_arg"
    /\ Truthy(DEFAULT_API_PORT)
    /\ ~Truthy(args.real_host)
    /\ SplitBareHost(args.host).ok

\* C9, as claimed: the resolved host is host + ":" + default port exactly
\* when the host carries no port, and the host unchanged when it carries one.
C9_DefaultPortIffAbsent ==
    ResolvedBareHost =>
        /\ ret.kind = "return"
        /\ ret.value[2] =
              IF SplitBareHost(args.host).port = << >>
              THEN args.host \o << ":" >> \o DEFAULT_API_PORT
              ELSE args.host

\* C10, as claimed: with default port 8443, "[::1]" resolves to "[::1]:8443"
\* and "[::1]:8443" is returned untouched.
C10_BracketedHosts ==
    ( /\ lastOp = "parse_api_host_arg"
      /\ DEFAULT_API_PORT = Port8443
      /\ ~Truthy(args.real_host)
      /\ args.host \in { ip6, ip6 \o << ":" >> \o Port8443 } ) =>
        /\ ret.kind = "return"
        /\ ret.value[2] = ip6 \o << ":" >> \o Port8443

\* parse_api_host_arg or the constructor ran on an empty host
EmptyHostResolved ==
    /\ lastOp \in { "parse_api_host_arg", "__init__" }
    /\ args.host = << >>

\* C11, as claimed: for an empty host, whatever the class declares, resolving
\* and constructing fail with an error: no base URL is produced, no transport
\* is created and nothing is sent.
C11_EmptyHostRejected ==
    EmptyHostResolved =>
        /\ ret.kind = "raise"
        /\ base_url = None
        /\ created = 0
        /\ sent = << >>

\* scenario A: parse_api_host_arg ran on "example.com" for a class with
\* default port 443, the default scheme and no base path
ScenarioA ==
    /\ lastOp = "parse_api_host_arg"
    /\ DEFAULT_API_PORT = Port443
    /\ ~Truthy(DEFAULT_API_BASEPATH)
    /\ args.host = example_com

https_example_com ==
    DEFAULT_API_PROTOCOL \o << ":", "/", "/" >> \o example_com

\* C12, as claimed: scenario A yields the base URL "https://example.com/".
C12_ScenarioA_NoPort ==
    ScenarioA =>
        /\ ret.kind = "return"
        /\ ret.value[1] = https_example_com \o << "/" >>

\* C12, amended: scenario A yields the base URL "https://example.com:443/",
\* built from the host with the default port appended.
C12_ScenarioA_WithPort ==
    ScenarioA =>
        /\ ret.kind = "return"
        /\ ret.value[1] = https_example_com \o << ":" >> \o Port443 \o << "/" >>

C12_Witness ==
    /\ ScenarioA
    /\ ~Truthy(args.real_host)
    /\ ret.kind = "return"
    /\ ret.value[2] = example_com \o << ":" >> \o Port443

\* parse_api_host_arg ran on a host that urlparse splits into a scheme and
\* an authority
ResolvedFullURL ==
    /\ lastOp = "parse_api_host_arg"
    /\ urlparse(args.host).kind = "return"
    /\ urlparse(args.host).value.scheme # << >>
    /\ urlparse(args.host).value.netloc # << >>

\* s is t without credentials: t itself when t has no "@", else what
\* follows the last "@" of t
IsWithoutCredentials(s, t) ==
    /\ ~Contains(s, "@")
    /\ \/ s = t
       \/ \E k \in 1..Len(t) : t[k] = "@" /\ s = SubSeq(t, k + 1, Len(t))

\* C13: for a host that is a URL with a scheme and an authority, the base URL
\* is the host argument verbatim, whatever port, scheme and base path the
\* class declares, and without a real_host argument the real host is the
\* authority without its credentials.
C13_FullURLVerbatim ==
    ResolvedFullURL =>
        /\ ret.kind = "return"
        /\ ret.value[1] = args.host
        /\ ~Truthy(args.real_host) =>
              IsWithoutCredentials(ret.value[2],
                                   urlparse(args.host).value.netloc)

C13_Witness ==
    /\ ResolvedFullURL
    /\ Truthy(DEFAULT_API_PORT)
    /\ Truthy(DEFAULT_API_BASEPATH)
    /\ args.real_host = None
    /\ args.host = << "a", ":", "/", "/", "u", "@", "a", "@", "a" >>
    /\ ret.kind = "return"
    /\ ret.value[2] = << "a" >>

-----------------------------------------------------------------------------
(* Properties of open_connection and of the order of calls *)

\* the last operation was an open_connection() whose setup raised after the
\* transport had been created
SetupFailedInOpen ==
    /\ lastOp = "open_connection"
    /\ args.outcome = "setup_raise"

\* C14: when a setup step of open_connection() raises, the transport it
\* created is closed before the error propagates and the session reference
\* is left as it was: a Closed client stays Closed with _session None.
C14_OpenFailureCleansUp ==
    SetupFailedInOpen =>
        /\ ret.kind = "raise"
        /\ closes[created] = 1
        /\ _session = before.session
        /\ _session # created
        /\ state = before.state
        /\ before.session = NoSession => (_session = NoSession /\ state = "Closed")

C14_Witness ==
    /\ SetupFailedInOpen
    /\ before.session = NoSession
    /\ ret.kind = "raise"
    /\ created >= 1
    /\ closes[created] = 1

\* how often a call occurs among the calls of the last operation
Count(name) == Cardinality({ i \in 1..Len(calls) : calls[i] = name })

\* the position of the only occurrence of a call
Position(name) == CHOOSE i \in 1..Len(calls) : calls[i] = name

\* C15: in __enter__, login() is called only after open_connection() has
\* returned; when open_connection() raises, login() is not called and that
\* error propagates.  In __exit__, logout() is called exactly once, then
\* close_connection() exactly once.
C15_AcquireReleaseOrder ==
    /\ lastOp = "__enter__" =>
          /\ Count("open_connection") = 1
          /\ Position("open_connection") = 1
          /\ args.open = "setup_raise" =>
                /\ Count("login") = 0
                /\ ret.kind = "raise"
                /\ ret.exc.type = "SetupError"
          /\ args.open = "ok" =>
                /\ Count("login") = 1
                /\ Position("login") = 2
    /\ lastOp = "__exit__" =>
          /\ Count("logout") = 1
          /\ Count("close_connection") = 1
          /\ Position("logout") < Position("close_connection")

C15_Witness ==
    /\ lastOp = "__exit__"
    /\ before.state = "Authenticated"
    /\ args.logout = "ok"
    /\ calls = << "logout", "close_connection" >>
    /\ created >= 1

-----------------------------------------------------------------------------
(* Properties of the headers *)

\* the last operation opened a transport: open_connection() or __enter__
\* returned
Opened ==
    /\ lastOp \in { "open_connection", "__enter__" }
    /\ ret.kind = "return"

\* the client's defaults for the headers it sets itself
ClientDefault(name) ==
    CASE name = "Host"         -> real_host
      [] name = "Content-Type" -> << "application/json" >>
      [] name = "Accept"       -> << "application/json" >>

\* C16: after open_connection(), the transport carries the caller's value
\* for every header name of the client's header mapping, also for a name the
\* client has a default for, and the client's default for the other names.
C16_CallerHeadersWin ==
    Opened =>
        /\ \A name \in DOMAIN headers :
              /\ name \in DOMAIN theaders[_session]
              /\ theaders[_session][name] = headers[name]
        /\ \A name \in { "Host", "Content-Type", "Accept" } \ DOMAIN headers :
              /\ name \in DOMAIN theaders[_session]
              /\ theaders[_session][name] = ClientDefault(name)

C16_Witness ==
    /\ Opened
    /\ DOMAIN headers = { "Host" }
    /\ theaders[_session]["Host"] = << "u1" >>
    /\ theaders[_session]["Host"] # real_host
    /\ theaders[_session]["Accept"] = << "application/json" >>

\* the last operation was a _request that reached the transport
RequestSent ==
    /\ lastOp = "_request"
    /\ sent # << >>

\* C17, as claimed: every request carries the headers that are in the
\* client's header mapping at the time of the request, also those added or
\* removed while the session is open.
C17_RequestCarriesCurrentHeaders ==
    RequestSent =>
        /\ \A name \in DOMAIN headers :
              /\ name \in DOMAIN sent[1].headers
              /\ sent[1].headers[name] = headers[name]
        /\ "X-Auth" \notin DOMAIN headers => "X-Auth" \notin DOMAIN sent[1].headers

\* C17, amended: every request carries the headers the session was given
\* by open_connection(), the client's defaults overwritten by the header
\* mapping as it was then; no add_header or unset_header, and no other
\* operation, changes the headers of a session that exists.
C17_RequestCarriesHeadersOfOpen ==
    [][ /\ \A t \in 1..created : theaders'[t] = theaders[t]
        /\ (lastOp' \in { "open_connection", "__enter__" } /\ created' # created
            /\ closes'[created'] = 0 /\ _session' = created') =>
              theaders'[created'] = SetupHeaders(real_host, headers)
        /\ (lastOp' = "_request" /\ sent' # << >>) =>
              /\ Len(sent') = 1
              /\ sent'[1].transport = _session
              /\ sent'[1].headers = theaders[_session] ]_vars

C17_Witness ==
    /\ RequestSent
    /\ "X-Auth" \in DOMAIN headers
    /\ "X-Auth" \notin DOMAIN sent[1].headers
    /\ "Host" \notin DOMAIN headers
    /\ sent[1].headers["Host"] = << "u1" >>

-----------------------------------------------------------------------------
(* Properties of requests and errors *)

\* C18: a _request on a Closed client raises AssertionError, puts nothing on
\* the wire, creates no transport and leaves the client Closed.
C18_RequestOnClosedFails ==
    [][ (lastOp' = "_request" /\ _session = NoSession) =>
            /\ ret'.kind = "raise"
            /\ ret'.exc.type = "AssertionError"
            /\ sent' = << >>
            /\ Count("request")' = 0
            /\ created' = created
            /\ closes' = closes
            /\ _session' = NoSession
            /\ state' = "Closed" ]_vars

C18_Witness ==
    /\ lastOp = "_request"
    /\ before.session = NoSession
    /\ ret.kind = "raise"
    /\ ret.exc.type = "AssertionError"
    /\ created >= 1
    /\ state = "Closed"

\* C19: when logout() raises in __exit__, the caller gets that very error,
\* raised after close_connection() has run on the transport: the release
\* does not return normally and does not raise another error in its place.
C19_LogoutErrorNotSuppressed ==
    LogoutFailedInExit =>
        /\ ret = Raised("LogoutError")
        /\ calls[Len(calls)] = "close_connection"
        /\ before.session \notin Live

C19_Witness ==
    /\ LogoutFailedInExit
    /\ before.state = "Authenticated"
    /\ ret = Raised("LogoutError")
    /\ state = "Closed"

-----------------------------------------------------------------------------
(* Properties of the real_host argument *)

\* the default-port rule of section 4.1 on a bare host: the port is appended
\* exactly when the host has none
WithDefaultPort(h, port) ==
    IF Truthy(port) /\ SplitBareHost(h).port = << >>
    THEN h \o << ":" >> \o port
    ELSE h

\* a bare host without brackets
IsPlainHost(h) == SplitBareHost(h).ok /\ h[1] # "["

\* parse_api_host_arg ran on a host that is a bare host without brackets or
\* a full URL
ResolvedPlainHostOrURL ==
    /\ lastOp = "parse_api_host_arg"
    /\ IsPlainHost(args.host) \/ ResolvedFullURL

\* C20, as claimed: a real_host argument is resolved by the default-port
\* rule on its own, whatever the host is, and the base URL of a full URL
\* stays verbatim; without a real_host argument (None or empty) the real
\* host is the host computed for host.
C20_RealHostResolved ==
    ResolvedPlainHostOrURL =>
        /\ ret.kind = "return"
        /\ ResolvedFullURL => ret.value[1] = args.host
        /\ (Truthy(args.real_host) /\ SplitBareHost(args.real_host).ok) =>
              ret.value[2] = WithDefaultPort(args.real_host, DEFAULT_API_PORT)
        /\ ~Truthy(args.real_host) =>
              ret.value[2] =
                  IF ResolvedFullURL
                  THEN netloc_host(urlparse(args.host).value.netloc)
                  ELSE WithDefaultPort(args.host, DEFAULT_API_PORT)


-----------------------------------------------------------------------------
(* Properties of the propagation policy *)

\* C21: a _request on an open client invokes the transport exactly once;
\* when the transport raises, the caller gets that error and there is no
\* second attempt; the session reference, the lifecycle state and the
\* transports are as before the call.
C21_NoAutomaticRetry ==
    [][ (lastOp' = "_request" /\ _session # NoSession) =>
            /\ Count("request")' = 1
            /\ Len(sent') = 1
            /\ args'.outcome = "raise" => ret' = Raised("ConnectionError")
            /\ args'.outcome = "response" => ret'.kind = "return"
            /\ _session' = _session
            /\ state' = state
            /\ created' = created
            /\ closes' = closes ]_vars

C21_Witness ==
    /\ lastOp = "_request"
    /\ args.outcome = "raise"
    /\ ret = Raised("ConnectionError")
    /\ Len(sent) = 1
    /\ before.state = "Authenticated"
    /\ state = "Authenticated"
    /\ _session \in Live

-----------------------------------------------------------------------------
(* Properties of the construction-time values *)

ClientOperations ==
    { "open_connection", "close_connection", "__enter__", "__exit__",
      "add_header", "unset_header", "join_url", "process_response",
      "_request" }

\* C22: no step of open_connection, close_connection, __enter__, __exit__,
\* add_header, unset_header, join_url, process_response or _request changes
\* base_url, real_host or verify_cert, whether the operation returns or
\* raises.
C22_ConstructionValuesImmutable ==
    [][ lastOp' \in ClientOperations =>
            /\ base_url' = base_url
            /\ real_host' = real_host
            /\ verify_cert' = verify_cert ]_vars

C22_Witness ==
    /\ lastOp = "join_url"
    /\ args.endpoint = << "/", "/", "x" >>
    /\ ret = Returned(base_url \o << "/", "x" >>)
    /\ base_url = << "a", ":", "/", "/", "u", "@", "a" >>
    /\ real_host = << "a", ":", "1" >>
    /\ verify_cert = FALSE
    /\ _session \in Live
    /\ "X-Auth" \in DOMAIN headers

-----------------------------------------------------------------------------
(* Properties of the exit code *)

\* run() reached the runnable unit
UnitRan ==
    /\ lastOp = "run"
    /\ Count("__call__") = 1

\* the runnable unit returned v and the with block was left without an
\* exception
UnitReturned(v) ==
    /\ UnitRan
    /\ args.unit = Returned(v)
    /\ args.interrupt # "cleanup"

\* a KeyboardInterrupt left the try block of run(): the user interrupted a
\* step that ran, or the runnable unit raised it
Interrupted ==
    /\ lastOp = "run"
    /\ \/ \E i \in 1..Len(calls) : calls[i] = args.interrupt
       \/ UnitRan /\ args.unit = Raised("KeyboardInterrupt")

\* a BrokenPipeError of the runnable unit left the try block of run()
BrokenPipe ==
    /\ UnitRan
    /\ args.unit = Raised("BrokenPipeError")
    /\ args.interrupt # "cleanup"

\* C23: run() returns EX_OK when the runnable unit returns None or True,
\* EX_ERR when it returns False, and the integer itself when it returns any
\* other integer, also 0 and 1; it returns EX_KEYBOARD_INTERRUPT on a
\* KeyboardInterrupt and EX_BROKEN_PIPE on a BrokenPipeError.
C23_ExitCodeMapping ==
    /\ (UnitReturned(PyNone) \/ UnitReturned(PyBool(TRUE))) =>
          ret = Returned(EX_OK)
    /\ UnitReturned(PyBool(FALSE)) => ret = Returned(EX_ERR)
    /\ \A n \in UnitInts : UnitReturned(PyInt(n)) => ret = Returned(n)
    /\ Interrupted => ret = Returned(EX_KEYBOARD_INTERRUPT)
    /\ BrokenPipe => ret = Returned(EX_BROKEN_PIPE)

C23_Witness ==
    /\ UnitReturned(PyInt(1))
    /\ ret = Returned(1)
    /\ EX_OK # 1
    /\ args.setup_logger
    /\ calls[Len(calls)] = "signal"

-----------------------------------------------------------------------------
(* Properties of the classification *)

\* C24: a step of process_response, whether it returns (True, body),
\* returns (False, None), raises APICallException or raises the decode
\* error, leaves the session reference, the lifecycle state, the header
\* mapping and the transports as they were; the APICallException it raises
\* holds the status code, the raw body and the message and nothing else.
C24_ClassificationHasNoSideEffects ==
    [][ lastOp' = "process_response" =>
            /\ _session' = _session
            /\ state' = state
            /\ headers' = headers
            /\ theaders' = theaders
            /\ created' = created
            /\ closes' = closes
            /\ (ret'.kind = "raise" /\ ret'.exc.type = "APICallException") =>
                  /\ DOMAIN ret'.exc =
                        { "type", "status_code", "response_text", "message" }
                  /\ ret'.exc.status_code = args'.response.status_code
                  /\ ret'.exc.response_text = args'.response.text
                  /\ ret'.exc.message = args'.response.text ]_vars

C24_Witness ==
    /\ lastOp = "process_response"
    /\ ret.kind = "raise"
    /\ ret.exc.type = "APICallException"
    /\ ret.exc.status_code = 404
    /\ before.state = "Authenticated"
    /\ state = "Authenticated"
    /\ _session \in Live
    /\ "X-Auth" \in DOMAIN headers

====
